---- MODULE Spec2Model ----
(***************************************************************************)
(* Change relay and fan-out of the real-time order server:                 *)
(*   DatabaseListener  (LISTEN connection, reconnect with backoff),        *)
(*   WebSocketHandler  (session registry, rooms, broadcast),               *)
(*   RealtimeOrderServer (wiring, shutdown).                               *)
(* One action per callback the event loop can run; a callback runs to its  *)
(* next macrotask boundary.                                                *)
(***************************************************************************)
EXTENDS Integers, Sequences, FiniteSets, TLC

\* ------------------------------------------------------------------ bounds
\* Pool objects / LISTEN connections alive at once
MaxPools == 2
\* reconnect timers pending at once
MaxTimers == 2
\* socket ids handed out
MaxSessions == 2
\* socket ids handed out where the listener fails
RelaySessions == 1
\* shutdown() invocations running at once
MaxShutdowns == 2
\* notifications the store raises on one connection
MaxNotifs == 2

\* ------------------------------------------------------- program constants
maxReconnectAttempts == 10
reconnectDelay == 1000
maxDelay == 30000

Slots == 1..MaxPools
Sids == 1..MaxSessions
OrderIds == {1, 2}
Statuses == {"pending", "shipped"}
NoStatus == "null"
Operations == {"INSERT", "UPDATE", "DELETE"}

VARIABLES
    ownerPc,            \* setupServices: "testing" | "connecting" | "running"
    exitBy,             \* the process.exit call that ended the process ("none": runs)
    awaitEnd,           \* per slot: shutdown() calls awaiting end() of its pool
    awaitPool,          \* shutdown() calls awaiting closePool()
    awaitHttp,          \* shutdown() calls that wait for server.close or the timer
    stopCalled,         \* dbListener.disconnect() has been called
    client,             \* DatabaseListener.client: slot of the Pool (0: null)
    pool,               \* per slot: "free" | "connecting" | "open" | "errored"
    isConnected,
    reconnectAttempts,
    timers,             \* pending setTimeout callbacks of handleDisconnection
    lastDelay,          \* delay the last callback passed to setTimeout (0: none)
    fatalCount,         \* emissions of maxReconnectAttemptsReached
    pending,            \* connections that have the last notification to read
    missed,             \* the last notification was raised while no connection
                        \* was listening
    payload,            \* the payload of the last notification, while being read
    handled,            \* handleDatabaseChange calls for the last notification
    discarded,          \* times a handler dropped the last notification
    everDiscarded,      \* a handler has dropped some notification
    storeLog,           \* payloads the store sent to the connection, in order
    readCount,          \* how many of them the connection's handler has read
    ioClosed,           \* io.close() was called
    nextSid,            \* next socket id
    sockets,            \* sockets of the namespace
    connectedClients,   \* Map socket id -> clientInfo
    orderRooms,         \* per socket: ids i with the socket in room order_<i>
    statusRooms,        \* per socket: statuses s with the socket in room status_<s>
    askedOrders,        \* per socket: order ids it asked for and has not withdrawn
    askedStatuses,      \* per socket: statuses it asked for and has not withdrawn
    broken,             \* sockets whose transport has failed and whose close
                        \* has not been handled yet
    sent                \* messages emitted to sockets (and transports closed) by
                        \* the last callback, in order

sdVars == <<awaitEnd, awaitPool, awaitHttp, stopCalled>>
ownerVars == <<ownerPc, exitBy, sdVars>>
listenerVars == <<client, pool, isConnected, reconnectAttempts, timers, fatalCount>>
storeVars == <<pending, missed, payload, handled, discarded, everDiscarded,
              storeLog, readCount>>
wsVars == <<ioClosed, nextSid, sockets, connectedClients, orderRooms, statusRooms,
           askedOrders, askedStatuses, broken>>
vars == <<ownerVars, listenerVars, storeVars, wsVars, sent, lastDelay>>

\* ----------------------------------------------------------------- helpers
Min(a, b) == IF a < b THEN a ELSE b

RECURSIVE Pow2(_)
Pow2(n) == IF n <= 0 THEN 1 ELSE 2 * Pow2(n - 1)

RECURSIVE SetToSeq(_)
SetToSeq(S) ==
    IF S = {} THEN <<>>
    ELSE LET m == CHOOSE x \in S : \A y \in S : x <= y
         IN <<m>> \o SetToSeq(S \ {m})

\* operation names kept as the trigger writes them
KeepCase(op) == op

\* String.prototype.toLowerCase on the operation names of the trigger
toLowerCase(op) ==
    CASE op = "INSERT" -> "insert"
      [] op = "UPDATE" -> "update"
      [] op = "DELETE" -> "delete"
      [] OTHER -> op

\* process.exit was called
exited == exitBy # "none"

\* setupServices has registered the dataChange and maxReconnectAttemptsReached
\* listeners
wired == ownerPc = "running"

\* setupServices has created wsHandler and dbListener
servicesUp == ownerPc # "testing"

\* payloads of pg_notify('orders_change', ...): the row of the trigger, or
\* text that is no JSON
Payloads ==
    [kind : {"valid"}, op : Operations, id : OrderIds,
     status : Statuses \cup {NoStatus}]
    \cup [kind : {"malformed"}, op : {"-"}, id : {0}, status : {NoStatus}]

NoPayload == [kind |-> "none", op |-> "-", id |-> 0, status |-> NoStatus]

\* rows of the table orders: the id and the status
Rows == [id : OrderIds, status : Statuses \cup {NoStatus}]

\* the record that is NULL: OLD of an INSERT, NEW of a DELETE
NullRow == [id |-> 0, status |-> NoStatus]

\* row changes that fire the trigger: the operation, OLD and NEW
RowChanges ==
    {<<"INSERT", NullRow, r>> : r \in Rows}
    \cup {c \in {"UPDATE"} \X Rows \X Rows : c[2].id = c[3].id}
    \cup {<<"DELETE", r, NullRow>> : r \in Rows}

\* a trigger that always sends NEW
PayloadOfNew(op, old, new) ==
    [kind |-> "valid", op |-> op, id |-> new.id, status |-> new.status]

\* notify_orders_change: the payload carries OLD for a DELETE and NEW otherwise
TriggerPayload(op, old, new) ==
    LET row == IF op = "DELETE" THEN old ELSE new
    IN  [kind |-> "valid", op |-> op, id |-> row.id, status |-> row.status]

Init ==
    /\ ownerPc = "testing"
    /\ exitBy = "none"
    /\ awaitEnd = [k \in Slots |-> 0]
    /\ awaitPool = 0
    /\ awaitHttp = 0
    /\ stopCalled = FALSE
    /\ client = 0
    /\ pool = [k \in Slots |-> "free"]
    /\ isConnected = FALSE
    /\ reconnectAttempts = 0
    /\ timers = 0
    /\ lastDelay = 0
    /\ fatalCount = 0
    /\ pending = {}
    /\ missed = FALSE
    /\ payload = NoPayload
    /\ handled = 0
    /\ discarded = 0
    /\ everDiscarded = FALSE
    /\ storeLog = <<>>
    /\ readCount = 0
    /\ ioClosed = FALSE
    /\ nextSid = 1
    /\ sockets = {}
    /\ connectedClients = [s \in {} |-> [id |-> s]]
    /\ orderRooms = [s \in Sids |-> {}]
    /\ statusRooms = [s \in Sids |-> {}]
    /\ askedOrders = [s \in Sids |-> {}]
    /\ askedStatuses = [s \in Sids |-> {}]
    /\ broken = {}
    /\ sent = <<>>

\* ------------------------------------------------------------- messages
\* A message emitted to socket `to`: event name <ch>[_<id>|_<status>][:<op>],
\* carrying the notification's payload (NoPayload: none); failed: the write
\* to the socket's transport fails.
Msg(to, ch, id, status, op, data) ==
    [to |-> to, ch |-> ch, id |-> id, status |-> status, op |-> op,
     data |-> data, totalClients |-> 0, failed |-> to \in broken]

RECURSIVE EmitTo(_, _, _, _, _, _)
\* io.to(targets).emit(event, message): one message per target socket
EmitTo(targets, ch, id, status, op, data) ==
    IF Len(targets) = 0 THEN <<>>
    ELSE <<Msg(Head(targets), ch, id, status, op, data)>>
         \o EmitTo(Tail(targets), ch, id, status, op, data)

\* --------------------------------------------------- WebSocketHandler
NoClients == [s \in {} |-> [id |-> s]]

\* a shutdown that sends the notice and leaves the sockets connected
WsShutdownNoticeOnly ==
    /\ sent' = EmitTo(SetToSeq(sockets), "server_shutdown", 0, "", "", NoPayload)
    /\ ioClosed' = TRUE
    /\ UNCHANGED <<nextSid, sockets, connectedClients, orderRooms, statusRooms,
                   askedOrders, askedStatuses, broken>>

\* a shutdown that closes the sockets and sends no notice
WsShutdownCloseOnly ==
    /\ sent' = EmitTo(SetToSeq(sockets), "close", 0, "", "", NoPayload)
    /\ ioClosed' = TRUE
    /\ sockets' = {}
    /\ connectedClients' = NoClients
    /\ orderRooms' = [s \in Sids |-> {}]
    /\ statusRooms' = [s \in Sids |-> {}]
    /\ askedOrders' = [s \in Sids |-> {}]
    /\ askedStatuses' = [s \in Sids |-> {}]
    /\ broken' = {}
    /\ UNCHANGED nextSid

\* WebSocketHandler.shutdown: the notice to every socket, then io.close(),
\* which closes the transport of every socket in turn (entries "close" of
\* sent; each socket runs its 'disconnect' handler).
WsShutdown ==
    /\ sent' = EmitTo(SetToSeq(sockets), "server_shutdown", 0, "", "", NoPayload)
               \o EmitTo(SetToSeq(sockets), "close", 0, "", "", NoPayload)
    /\ ioClosed' = TRUE
    /\ sockets' = {}
    /\ connectedClients' = NoClients
    /\ orderRooms' = [s \in Sids |-> {}]
    /\ statusRooms' = [s \in Sids |-> {}]
    /\ askedOrders' = [s \in Sids |-> {}]
    /\ askedStatuses' = [s \in Sids |-> {}]
    /\ broken' = {}
    /\ UNCHANGED nextSid

\* ------------------------------------------------ RealtimeOrderServer
RECURSIVE SumOver(_, _)
SumOver(f, S) ==
    IF S = {} THEN 0
    ELSE LET k == CHOOSE x \in S : TRUE IN f[k] + SumOver(f, S \ {k})

\* shutdown() calls that have not run to their end
Shutdowns == SumOver(awaitEnd, Slots) + awaitPool + awaitHttp

\* RealtimeOrderServer.shutdown up to its first macrotask boundary:
\* wsHandler.shutdown(), then dbListener.disconnect() up to client.end()
ShutdownCall ==
    /\ Shutdowns < MaxShutdowns
    /\ IF servicesUp
       THEN /\ WsShutdown
            /\ IF client # 0
               THEN /\ awaitEnd' = [awaitEnd EXCEPT ![client] = @ + 1]
                    /\ UNCHANGED awaitPool
               ELSE /\ awaitPool' = awaitPool + 1
                    /\ UNCHANGED awaitEnd
            /\ stopCalled' = TRUE
       ELSE /\ awaitPool' = awaitPool + 1
            /\ UNCHANGED <<awaitEnd, stopCalled, wsVars>>
            /\ sent' = <<>>
    /\ UNCHANGED awaitHttp

\* ---------------------------------------------------- DatabaseListener
\* a backoff without the cap of 30 s
ReconnectDelayUncapped(attempt) ==
    reconnectDelay * Pow2(attempt - 1)

\* the delay handleDisconnection computes for an attempt
ReconnectDelayOf(attempt) ==
    Min(reconnectDelay * Pow2(attempt - 1), maxDelay)

\* the model can take the step handleDisconnection is about to take
CanHandleDisconnection ==
    IF reconnectAttempts < maxReconnectAttempts
    THEN timers < MaxTimers
    ELSE wired => Shutdowns < MaxShutdowns

\* a handleDisconnection that goes on counting once the attempts are used up
HandleDisconnectionCountsOn ==
    /\ isConnected' = FALSE
    /\ IF reconnectAttempts < maxReconnectAttempts
       THEN /\ reconnectAttempts' = reconnectAttempts + 1
            /\ lastDelay' = ReconnectDelayOf(reconnectAttempts + 1)
            /\ timers' = timers + 1
            /\ UNCHANGED fatalCount
       ELSE /\ fatalCount' = fatalCount + 1
            /\ reconnectAttempts' = reconnectAttempts + 1
            /\ lastDelay' = 0
            /\ UNCHANGED timers

\* handleDisconnection, the listener's own fields
HandleDisconnection ==
    /\ isConnected' = FALSE
    /\ IF reconnectAttempts < maxReconnectAttempts
       THEN /\ reconnectAttempts' = reconnectAttempts + 1
            /\ lastDelay' = ReconnectDelayOf(reconnectAttempts + 1)
            /\ timers' = timers + 1
            /\ UNCHANGED fatalCount
       ELSE /\ fatalCount' = fatalCount + 1
            /\ lastDelay' = 0
            /\ UNCHANGED <<reconnectAttempts, timers>>

\* handleDisconnection whose fatal event has no listener
DisconnectedUnheard ==
    /\ CanHandleDisconnection
    /\ HandleDisconnection
    /\ UNCHANGED <<sdVars, wsVars>>
    /\ sent' = <<>>

\* handleDisconnection with the listeners of its events: the owner's
\* maxReconnectAttemptsReached listener calls shutdown()
Disconnected ==
    /\ CanHandleDisconnection
    /\ HandleDisconnection
    /\ IF reconnectAttempts >= maxReconnectAttempts /\ wired
       THEN ShutdownCall
       ELSE /\ UNCHANGED <<sdVars, wsVars>>
            /\ sent' = <<>>

\* nothing lives in slot k and no shutdown awaits its pool
SlotUnused(k) ==
    /\ pool[k] = "free"
    /\ awaitEnd[k] = 0

\* the slot a new Pool takes: the first unused one
SlotFree(k) ==
    /\ SlotUnused(k)
    /\ \A j \in Slots : j < k => ~SlotUnused(j)

\* connect() up to `await this.client.connect()`
ConnectCall(k) ==
    /\ SlotFree(k)
    /\ client' = k
    /\ pool' = [pool EXCEPT ![k] = "connecting"]

\* setupServices: testConnection() succeeded; wsHandler and dbListener are
\* created and dbListener.connect() is called
TestConnectionOk ==
    /\ ~exited
    /\ lastDelay' = 0
    /\ ownerPc = "testing"
    /\ ownerPc' = "connecting"
    /\ \E k \in Slots : ConnectCall(k)
    /\ sent' = <<>>
    /\ UNCHANGED <<exitBy, sdVars, isConnected, reconnectAttempts, timers,
                   fatalCount, storeVars, wsVars>>

\* setupServices: testConnection() failed: throw, catch, process.exit(1)
TestConnectionFail ==
    /\ ~exited
    /\ lastDelay' = 0
    /\ ownerPc = "testing"
    /\ exitBy' = "testConnection"
    /\ sent' = <<>>
    /\ UNCHANGED <<ownerPc, sdVars, listenerVars, storeVars, wsVars>>

\* the reconnect timer fires: connect() is called
TimerFire(k) ==
    /\ ~exited
    /\ lastDelay' = 0
    /\ timers > 0
    /\ timers' = timers - 1
    /\ ConnectCall(k)
    /\ sent' = <<>>
    /\ UNCHANGED <<ownerVars, isConnected, reconnectAttempts, fatalCount,
                   storeVars, wsVars>>

\* a connect() that, once it listens, is sent the notification it missed
ConnectSuccessWithReplay(k) ==
    /\ ~exited
    /\ lastDelay' = 0
    /\ pool[k] = "connecting"
    /\ pool' = [pool EXCEPT ![k] = "open"]
    /\ isConnected' = TRUE
    /\ reconnectAttempts' = 0
    /\ ownerPc' = IF ownerPc = "connecting" THEN "running" ELSE ownerPc
    /\ pending' = IF missed THEN pending \cup {k} ELSE pending
    /\ sent' = <<>>
    /\ UNCHANGED <<exitBy, sdVars, client, timers, fatalCount, missed, payload,
                   handled, discarded, everDiscarded, storeLog, readCount,
                   wsVars>>

\* a connect() whose success leaves the attempt counter as it is
ConnectSuccessKeepsCount(k) ==
    /\ ~exited
    /\ lastDelay' = 0
    /\ pool[k] = "connecting"
    /\ pool' = [pool EXCEPT ![k] = "open"]
    /\ isConnected' = TRUE
    /\ ownerPc' = IF ownerPc = "connecting" THEN "running" ELSE ownerPc
    /\ sent' = <<>>
    /\ UNCHANGED <<exitBy, sdVars, client, reconnectAttempts, timers, fatalCount,
                   storeVars, wsVars>>

\* connect(): pool.connect() and LISTEN succeeded; the handlers are attached.
\* For the owner's call, setupServices continues and registers its listeners.
ConnectSuccess(k) ==
    /\ ~exited
    /\ lastDelay' = 0
    /\ pool[k] = "connecting"
    /\ pool' = [pool EXCEPT ![k] = "open"]
    /\ isConnected' = TRUE
    /\ reconnectAttempts' = 0
    /\ ownerPc' = IF ownerPc = "connecting" THEN "running" ELSE ownerPc
    /\ sent' = <<>>
    /\ UNCHANGED <<exitBy, sdVars, client, timers, fatalCount,
                   storeVars, wsVars>>

\* connect(): pool.connect() or LISTEN failed: handleDisconnection(), throw.
\* The timer's caller catches; setupServices catches and calls process.exit(1).
ConnectFail(k) ==
    /\ ~exited
    /\ pool[k] = "connecting"
    /\ pool' = [pool EXCEPT ![k] = "free"]
    /\ Disconnected
    /\ exitBy' = IF ownerPc = "connecting" THEN "connect" ELSE exitBy
    /\ UNCHANGED <<ownerPc, client, storeVars>>

\* the 'error' event of an open connection
ErrorEvent(k) ==
    /\ ~exited
    /\ pool[k] = "open"
    /\ pool' = [pool EXCEPT ![k] = "errored"]
    /\ pending' = pending \ {k}
    /\ payload' = IF pending \ {k} = {} THEN NoPayload ELSE payload
    /\ Disconnected
    /\ UNCHANGED <<ownerPc, exitBy, client, missed, handled, discarded,
                   everDiscarded, storeLog, readCount>>

\* the 'end' event of a connection (after its 'error' event or without one)
EndEvent(k) ==
    /\ ~exited
    /\ pool[k] \in {"open", "errored"}
    /\ pool' = [pool EXCEPT ![k] = "free"]
    /\ pending' = pending \ {k}
    /\ payload' = IF pending \ {k} = {} THEN NoPayload ELSE payload
    /\ Disconnected
    /\ UNCHANGED <<ownerPc, exitBy, client, missed, handled, discarded,
                   everDiscarded, storeLog, readCount>>

\* disconnect() after `await this.client.end()`: the pool in slot k has
\* ended, which it does once no connection of it is left
DisconnectResolve(k) ==
    /\ ~exited
    /\ lastDelay' = 0
    /\ awaitEnd[k] > 0
    /\ pool[k] \notin {"open", "errored"}
    /\ isConnected' = FALSE
    /\ awaitEnd' = [awaitEnd EXCEPT ![k] = @ - 1]
    /\ awaitPool' = awaitPool + 1
    /\ sent' = <<>>
    /\ UNCHANGED <<ownerPc, exitBy, awaitHttp, stopCalled, client, pool, reconnectAttempts,
                   timers, fatalCount, storeVars, wsVars>>

\* a disconnect() without the catch: the rejection reaches shutdown(), whose
\* catch runs process.exit(1)
DisconnectRejectThrows(k) ==
    /\ ~exited
    /\ lastDelay' = 0
    /\ awaitEnd[k] > 0
    /\ awaitEnd' = [awaitEnd EXCEPT ![k] = @ - 1]
    /\ exitBy' = "shutdown"
    /\ sent' = <<>>
    /\ UNCHANGED <<ownerPc, awaitPool, awaitHttp, stopCalled, listenerVars,
                   storeVars, wsVars>>

\* disconnect(): client.end() of the pool in slot k rejected; the catch logs it
DisconnectReject(k) ==
    /\ ~exited
    /\ lastDelay' = 0
    /\ awaitEnd[k] > 0
    /\ awaitEnd' = [awaitEnd EXCEPT ![k] = @ - 1]
    /\ awaitPool' = awaitPool + 1
    /\ sent' = <<>>
    /\ UNCHANGED <<ownerPc, exitBy, awaitHttp, stopCalled, listenerVars, storeVars,
                   wsVars>>

\* shutdown(): closePool() returned; server.close(cb) and the force-exit
\* timer are set
ClosePoolDone ==
    /\ ~exited
    /\ lastDelay' = 0
    /\ awaitPool > 0
    /\ awaitPool' = awaitPool - 1
    /\ awaitHttp' = awaitHttp + 1
    /\ sent' = <<>>
    /\ UNCHANGED <<ownerPc, exitBy, awaitEnd, stopCalled, listenerVars, storeVars,
                   wsVars>>

\* shutdown(): the callback of server.close runs process.exit(0)
ServerClosed ==
    /\ ~exited
    /\ lastDelay' = 0
    /\ awaitHttp > 0
    /\ exitBy' = "closed"
    /\ sent' = <<>>
    /\ UNCHANGED <<ownerPc, sdVars, listenerVars, storeVars, wsVars>>

\* shutdown(): the 10 s timer runs process.exit(1)
ForceExit ==
    /\ ~exited
    /\ lastDelay' = 0
    /\ awaitHttp > 0
    /\ exitBy' = "timeout"
    /\ sent' = <<>>
    /\ UNCHANGED <<ownerPc, sdVars, listenerVars, storeVars, wsVars>>

\* SIGTERM, SIGINT or SIGQUIT: shutdown()
Signal ==
    /\ ~exited
    /\ lastDelay' = 0
    /\ ShutdownCall
    /\ UNCHANGED <<ownerPc, exitBy, listenerVars, storeVars>>

\* ------------------------------------------------------------ the store
\* The store raises a notification (pg_notify in the trigger): it is sent to
\* every connection that LISTENs. One notification is in flight at a time:
\* the next is raised when every connection has read the last or lost it.
StoreNotify ==
    /\ ~exited
    /\ lastDelay' = 0
    /\ pending = {}
    /\ pending' = {k \in Slots : pool[k] = "open"}
    /\ missed' = (\A k \in Slots : pool[k] # "open")
    /\ payload' = NoPayload
    /\ handled' = 0
    /\ discarded' = 0
    /\ sent' = <<>>
    /\ UNCHANGED <<ownerVars, listenerVars, everDiscarded, storeLog, readCount,
                   wsVars>>

\* a broadcast whose all-scope message goes to subscribed sockets only
HandleDatabaseChangeToSubscribers(p) ==
    LET op == toLowerCase(p.op)
        subscribed == SetToSeq({s \in sockets :
                                  orderRooms[s] # {} \/ statusRooms[s] # {}})
        byOrder == SetToSeq({s \in sockets : p.id \in orderRooms[s]})
        byStatus == SetToSeq({s \in sockets : p.status \in statusRooms[s]})
    IN  EmitTo(subscribed, "orders", 0, "", op, p)
        \o (IF p.id # 0
            THEN EmitTo(byOrder, "order", p.id, "", op, p) ELSE <<>>)
        \o (IF p.status # NoStatus
            THEN EmitTo(byStatus, "status", 0, p.status, op, p) ELSE <<>>)

\* a broadcast that sends each socket one message, the most specific one
HandleDatabaseChangeDeduplicated(p) ==
    LET op == toLowerCase(p.op)
        byOrder == {s \in sockets : p.id # 0 /\ p.id \in orderRooms[s]}
        byStatus == {s \in sockets : p.status # NoStatus
                                     /\ p.status \in statusRooms[s]}
    IN  EmitTo(SetToSeq(sockets \ (byOrder \cup byStatus)), "orders", 0, "", op, p)
        \o EmitTo(SetToSeq(byOrder), "order", p.id, "", op, p)
        \o EmitTo(SetToSeq(byStatus \ byOrder), "status", 0, p.status, op, p)

RECURSIVE UntilFailure(_)
\* the messages of a sequence up to the first whose write fails
UntilFailure(out) ==
    IF Len(out) = 0 THEN <<>>
    ELSE IF Head(out).failed THEN <<Head(out)>>
    ELSE <<Head(out)>> \o UntilFailure(Tail(out))

\* a broadcast that stops at the first write that fails
HandleDatabaseChangeAbortsOnFailure(p) ==
    LET op == toLowerCase(p.op)
        all == SetToSeq(sockets)
        byOrder == SetToSeq({s \in sockets : p.id \in orderRooms[s]})
        byStatus == SetToSeq({s \in sockets : p.status \in statusRooms[s]})
    IN  UntilFailure(
           EmitTo(all, "orders", 0, "", op, p)
           \o (IF p.id # 0
               THEN EmitTo(byOrder, "order", p.id, "", op, p) ELSE <<>>)
           \o (IF p.status # NoStatus
               THEN EmitTo(byStatus, "status", 0, p.status, op, p) ELSE <<>>))

\* WebSocketHandler.handleDatabaseChange: the messages it emits
HandleDatabaseChange(p) ==
    LET op == toLowerCase(p.op)
        all == SetToSeq(sockets)
        byOrder == SetToSeq({s \in sockets : p.id \in orderRooms[s]})
        byStatus == SetToSeq({s \in sockets : p.status \in statusRooms[s]})
    IN  EmitTo(all, "orders", 0, "", op, p)
        \o (IF p.id # 0
            THEN EmitTo(byOrder, "order", p.id, "", op, p) ELSE <<>>)
        \o (IF p.status # NoStatus
            THEN EmitTo(byStatus, "status", 0, p.status, op, p) ELSE <<>>)

\* a parser that accepts any text
ParsesAnything(p) == TRUE

\* JSON.parse(msg.payload) succeeds
Parses(p) == p.kind # "malformed"

\* payloads that parse as JSON and are no change of a row: without data
\* (absent or null), without an operation that is a string, and with data
\* that is a number, a string or a boolean
OddPayloads ==
    {[kind |-> "nodata", op |-> "INSERT", id |-> 0, status |-> NoStatus],
     [kind |-> "nooperation", op |-> "-", id |-> 1, status |-> "pending"],
     [kind |-> "scalardata", op |-> "INSERT", id |-> 0, status |-> NoStatus]}

\* a TypeError is thrown while the payload is processed: by `payload.data.id`
\* in the notification handler, or by `operation.toLowerCase()` in
\* handleDatabaseChange once the owner listens to dataChange, in both cases
\* before anything is emitted to a socket
Throws(p) ==
    \/ p.kind = "nodata"
    \/ p.kind = "nooperation" /\ wired

\* the body of the 'notification' handler: parse, then emit dataChange, whose
\* listener calls handleDatabaseChange; a payload that does not parse, or
\* whose processing throws, is logged by the catch
NotificationHandler(p) ==
    IF Parses(p) /\ ~Throws(p)
    THEN /\ sent' = (IF wired THEN HandleDatabaseChange(p) ELSE <<>>)
         /\ handled' = (IF wired THEN handled + 1 ELSE handled)
         /\ UNCHANGED <<discarded, everDiscarded>>
    ELSE /\ sent' = <<>>
         /\ discarded' = discarded + 1
         /\ everDiscarded' = TRUE
         /\ UNCHANGED handled

\* the 'notification' handler of connection k, for a notification of payload
\* p. The payload of a notification is drawn when the first connection reads
\* it and kept while another connection still has it to read.
OnNotification(k, p) ==
    /\ ~exited
    /\ lastDelay' = 0
    /\ pool[k] = "open"
    /\ k \in pending
    /\ payload \in {NoPayload, p}
    /\ pending' = pending \ {k}
    /\ payload' = IF pending \ {k} = {} THEN NoPayload ELSE p
    /\ NotificationHandler(p)
    /\ UNCHANGED <<ownerVars, listenerVars, missed, storeLog, readCount, wsVars>>

\* The store commits a change and its trigger notifies: the payload is sent
\* to the LISTEN connection, behind those sent before.
StoreCommit(p) ==
    /\ ~exited
    /\ lastDelay' = 0
    /\ client # 0
    /\ pool[client] = "open"
    /\ Len(storeLog) < MaxNotifs
    /\ storeLog' = Append(storeLog, p)
    /\ sent' = <<>>
    /\ UNCHANGED <<ownerVars, listenerVars, pending, missed, payload, handled,
                   discarded, everDiscarded, readCount, wsVars>>

\* the newest payload sent to the connection
UnreadLatest == storeLog[Len(storeLog)]

\* the payload the connection hands to its 'notification' handler next: the
\* oldest one not read
Unread == storeLog[readCount + 1]

\* the 'notification' handler of connection k, for the next payload of the
\* connection's stream
OnQueuedNotification(k) ==
    /\ ~exited
    /\ lastDelay' = 0
    /\ k = client
    /\ pool[k] = "open"
    /\ readCount < Len(storeLog)
    /\ readCount' = readCount + 1
    /\ NotificationHandler(Unread)
    /\ UNCHANGED <<ownerVars, listenerVars, pending, missed, payload, storeLog,
                   wsVars>>

\* ------------------------------------------------------------- sockets
\* a connection handler that keys the registry entry by the number of clients
ClientConnectKeyedByCount ==
    /\ ~exited
    /\ lastDelay' = 0
    /\ servicesUp
    /\ ~ioClosed
    /\ nextSid <= MaxSessions
    /\ nextSid' = nextSid + 1
    /\ sockets' = sockets \cup {nextSid}
    /\ connectedClients' =
           [s \in DOMAIN connectedClients \cup {nextSid} |->
              IF s = nextSid THEN [id |-> Cardinality(DOMAIN connectedClients) + 1]
              ELSE connectedClients[s]]
    /\ sent' = <<[Msg(nextSid, "welcome", nextSid, "", "", NoPayload) EXCEPT
                    !.totalClients = Cardinality(DOMAIN connectedClients')]>>
    /\ UNCHANGED <<ownerVars, listenerVars, storeVars, ioClosed, orderRooms,
                   statusRooms, askedOrders, askedStatuses, broken>>

\* a connection handler that counts the clients before it registers the new one
ClientConnectCountsBefore ==
    /\ ~exited
    /\ lastDelay' = 0
    /\ servicesUp
    /\ ~ioClosed
    /\ nextSid <= MaxSessions
    /\ nextSid' = nextSid + 1
    /\ sockets' = sockets \cup {nextSid}
    /\ connectedClients' =
           [s \in DOMAIN connectedClients \cup {nextSid} |->
              IF s = nextSid THEN [id |-> nextSid] ELSE connectedClients[s]]
    /\ sent' = <<[Msg(nextSid, "welcome", nextSid, "", "", NoPayload) EXCEPT
                    !.totalClients = Cardinality(DOMAIN connectedClients)]>>
    /\ UNCHANGED <<ownerVars, listenerVars, storeVars, ioClosed, orderRooms,
                   statusRooms, askedOrders, askedStatuses, broken>>

\* io.on('connection'): the registry entry and the welcome message
ClientConnect ==
    /\ ~exited
    /\ lastDelay' = 0
    /\ servicesUp
    /\ ~ioClosed
    /\ nextSid <= MaxSessions
    /\ nextSid' = nextSid + 1
    /\ sockets' = sockets \cup {nextSid}
    /\ connectedClients' =
           [s \in DOMAIN connectedClients \cup {nextSid} |->
              IF s = nextSid THEN [id |-> nextSid] ELSE connectedClients[s]]
    /\ sent' = <<[Msg(nextSid, "welcome", nextSid, "", "", NoPayload) EXCEPT
                    !.totalClients = Cardinality(DOMAIN connectedClients')]>>
    /\ UNCHANGED <<ownerVars, listenerVars, storeVars, ioClosed, orderRooms,
                   statusRooms, askedOrders, askedStatuses, broken>>

\* a subscribe that replaces the rooms held by those of the message
JoinReplaces(rooms, xs) == xs

\* socket.join(room) for every element of an array
Join(rooms, xs) == rooms \cup xs

\* an unsubscribe that leaves every room
LeaveAll(rooms, xs) == {}

\* an unsubscribe that leaves no room
LeaveNothing(rooms, xs) == rooms

\* socket.leave(room) for every element of an array
Leave(rooms, xs) == rooms \ xs

\* a subscribe that makes every socket of the namespace join the rooms
SubscribeJoinsEverySocket(s, oa, oids, sa, sts) ==
    /\ ~exited
    /\ lastDelay' = 0
    /\ s \in sockets
    /\ orderRooms' = [x \in Sids |-> IF x \in sockets /\ oa
                                     THEN Join(orderRooms[x], oids)
                                     ELSE orderRooms[x]]
    /\ statusRooms' = [x \in Sids |-> IF x \in sockets /\ sa
                                      THEN Join(statusRooms[x], sts)
                                      ELSE statusRooms[x]]
    /\ askedOrders' = [askedOrders EXCEPT ![s] = @ \cup oids]
    /\ askedStatuses' = [askedStatuses EXCEPT ![s] = @ \cup sts]
    /\ sent' = <<>>
    /\ UNCHANGED <<ownerVars, listenerVars, storeVars, ioClosed, nextSid,
                   sockets, connectedClients, broken>>

\* socket.on('subscribe'): orderIds and statuses, each an array or not
Subscribe(s, oa, oids, sa, sts) ==
    /\ ~exited
    /\ lastDelay' = 0
    /\ s \in sockets
    /\ orderRooms' = [orderRooms EXCEPT ![s] = IF oa THEN Join(@, oids) ELSE @]
    /\ statusRooms' = [statusRooms EXCEPT ![s] = IF sa THEN Join(@, sts) ELSE @]
    /\ askedOrders' = [askedOrders EXCEPT ![s] = @ \cup oids]
    /\ askedStatuses' = [askedStatuses EXCEPT ![s] = @ \cup sts]
    /\ sent' = <<>>
    /\ UNCHANGED <<ownerVars, listenerVars, storeVars, ioClosed, nextSid,
                   sockets, connectedClients, broken>>

\* socket.on('unsubscribe')
Unsubscribe(s, oa, oids, sa, sts) ==
    /\ ~exited
    /\ lastDelay' = 0
    /\ s \in sockets
    /\ orderRooms' = [orderRooms EXCEPT ![s] = IF oa THEN Leave(@, oids) ELSE @]
    /\ statusRooms' = [statusRooms EXCEPT ![s] = IF sa THEN Leave(@, sts) ELSE @]
    /\ askedOrders' = [askedOrders EXCEPT ![s] = @ \ oids]
    /\ askedStatuses' = [askedStatuses EXCEPT ![s] = @ \ sts]
    /\ sent' = <<>>
    /\ UNCHANGED <<ownerVars, listenerVars, storeVars, ioClosed, nextSid,
                   sockets, connectedClients, broken>>

\* socket.on('subscribe') or socket.on('unsubscribe') for a message without
\* payload (undefined or null): `const { orderIds, statuses } = data` throws
\* a TypeError out of the handler; nothing catches it, so the process's
\* 'uncaughtException' handler runs and calls shutdown()
RequestWithoutPayload(s) ==
    /\ ~exited
    /\ lastDelay' = 0
    /\ s \in sockets
    /\ ShutdownCall
    /\ UNCHANGED <<ownerPc, exitBy, listenerVars, storeVars>>

\* a removal by position, as with splice(indexOf(s), 1): for an id that is
\* absent it removes the last entry
DeleteByPosition(map, s) ==
    IF s \in DOMAIN map \/ DOMAIN map = {}
    THEN [x \in DOMAIN map \ {s} |-> map[x]]
    ELSE LET last == CHOOSE x \in DOMAIN map : \A y \in DOMAIN map : y <= x
         IN  [x \in DOMAIN map \ {last} |-> map[x]]

\* Map.prototype.delete
Delete(map, s) == [x \in DOMAIN map \ {s} |-> map[x]]

\* a close after which the socket stays in the namespace and in its rooms
ClientDisconnectRegistryOnly(s) ==
    /\ ~exited
    /\ lastDelay' = 0
    /\ s \in sockets
    /\ s \in DOMAIN connectedClients
    /\ connectedClients' =
           [x \in DOMAIN connectedClients \ {s} |-> connectedClients[x]]
    /\ sent' = <<>>
    /\ UNCHANGED <<ownerVars, listenerVars, storeVars, ioClosed, nextSid,
                   sockets, orderRooms, statusRooms, askedOrders, askedStatuses,
                   broken>>

\* a close after which the rooms of the socket wait for the next socket
ClientDisconnectRoomsInherited(s) ==
    /\ ~exited
    /\ lastDelay' = 0
    /\ s \in sockets
    /\ sockets' = sockets \ {s}
    /\ orderRooms' = [x \in Sids |-> IF x = nextSid THEN orderRooms[s]
                                     ELSE IF x = s THEN {} ELSE orderRooms[x]]
    /\ statusRooms' = [x \in Sids |-> IF x = nextSid THEN statusRooms[s]
                                      ELSE IF x = s THEN {} ELSE statusRooms[x]]
    /\ askedOrders' = [askedOrders EXCEPT ![s] = {}]
    /\ askedStatuses' = [askedStatuses EXCEPT ![s] = {}]
    /\ connectedClients' = Delete(connectedClients, s)
    /\ broken' = broken \ {s}
    /\ sent' = <<>>
    /\ UNCHANGED <<ownerVars, listenerVars, storeVars, ioClosed, nextSid>>

\* the socket closes: it leaves its rooms and the namespace, then
\* socket.on('disconnect') deletes the registry entry
ClientDisconnect(s) ==
    /\ ~exited
    /\ lastDelay' = 0
    /\ s \in sockets
    /\ sockets' = sockets \ {s}
    /\ orderRooms' = [orderRooms EXCEPT ![s] = {}]
    /\ statusRooms' = [statusRooms EXCEPT ![s] = {}]
    /\ askedOrders' = [askedOrders EXCEPT ![s] = {}]
    /\ askedStatuses' = [askedStatuses EXCEPT ![s] = {}]
    /\ connectedClients' = Delete(connectedClients, s)
    /\ broken' = broken \ {s}
    /\ sent' = <<>>
    /\ UNCHANGED <<ownerVars, listenerVars, storeVars, ioClosed, nextSid>>

\* the transport of a socket fails (the peer is gone); the server has not
\* handled the close yet
TransportFail(s) ==
    /\ ~exited
    /\ lastDelay' = 0
    /\ s \in sockets \ broken
    /\ broken' = broken \cup {s}
    /\ sent' = <<>>
    /\ UNCHANGED <<ownerVars, listenerVars, storeVars, ioClosed, nextSid,
                   sockets, connectedClients, orderRooms, statusRooms,
                   askedOrders, askedStatuses>>

\* the 'disconnect' handler of a socket runs once more after the socket has
\* left the namespace
DuplicateDisconnect(s) ==
    /\ ~exited
    /\ lastDelay' = 0
    /\ s < nextSid
    /\ s \notin sockets
    /\ connectedClients' = Delete(connectedClients, s)
    /\ sent' = <<>>
    /\ UNCHANGED <<ownerVars, listenerVars, storeVars, ioClosed, nextSid,
                   sockets, orderRooms, statusRooms, askedOrders, askedStatuses,
                   broken>>

\* ---------------------------------------------------------------- system
\* payloads the relay specification draws from: one row, and text that is no JSON
RelayPayloads ==
    {p \in Payloads : p.kind = "malformed"
                      \/ (p.op = "INSERT" /\ p.id = 1 /\ p.status = "pending")}

\* The listener and the owner from the start of the program: connections
\* fail and drop, reconnects are retried, signals and the fatal event shut
\* the server down.
Next ==
    \/ TestConnectionOk
    \/ TestConnectionFail
    \/ \E k \in Slots : TimerFire(k)
    \/ \E k \in Slots : ConnectSuccess(k)
    \/ \E k \in Slots : ConnectFail(k)
    \/ \E k \in Slots : ErrorEvent(k)
    \/ \E k \in Slots : EndEvent(k)
    \/ \E k \in Slots : DisconnectResolve(k)
    \/ \E k \in Slots : DisconnectReject(k)
    \/ ClosePoolDone
    \/ ServerClosed
    \/ ForceExit
    \/ Signal

Spec == Init /\ [][Next]_vars

\* The listener with the store's notifications and sockets that hold no
\* subscription, while the store accepts every connection attempt:
\* connections drop and are re-established.
NotifyNext ==
    \/ TestConnectionOk
    \/ TestConnectionFail
    \/ \E k \in Slots : TimerFire(k)
    \/ \E k \in Slots : ConnectSuccess(k)
    \/ \E k \in Slots : ErrorEvent(k)
    \/ \E k \in Slots : EndEvent(k)
    \/ StoreNotify
    \/ \E k \in Slots, p \in RelayPayloads : OnNotification(k, p)
    \/ (nextSid <= RelaySessions /\ ClientConnect)
    \/ \E s \in Sids : ClientDisconnect(s)

NotifySpec == Init /\ [][NotifyNext]_vars

\* The broadcaster behind a listener that stays connected: the state after
\* setupServices succeeded, then sockets, subscriptions and the notifications
\* of the trigger.
FanoutInit ==
    /\ ownerPc = "running"
    /\ exitBy = "none"
    /\ awaitEnd = [k \in Slots |-> 0]
    /\ awaitPool = 0
    /\ awaitHttp = 0
    /\ stopCalled = FALSE
    /\ client = 1
    /\ pool = [k \in Slots |-> IF k = 1 THEN "open" ELSE "free"]
    /\ isConnected = TRUE
    /\ reconnectAttempts = 0
    /\ timers = 0
    /\ lastDelay = 0
    /\ fatalCount = 0
    /\ pending = {}
    /\ missed = FALSE
    /\ payload = NoPayload
    /\ handled = 0
    /\ discarded = 0
    /\ everDiscarded = FALSE
    /\ storeLog = <<>>
    /\ readCount = 0
    /\ ioClosed = FALSE
    /\ nextSid = 1
    /\ sockets = {}
    /\ connectedClients = NoClients
    /\ orderRooms = [s \in Sids |-> {}]
    /\ statusRooms = [s \in Sids |-> {}]
    /\ askedOrders = [s \in Sids |-> {}]
    /\ askedStatuses = [s \in Sids |-> {}]
    /\ broken = {}
    /\ sent = <<>>

\* the values of a field of a subscribe message: arrays over D when the field
\* is an array, one stand-in for every other value when it is not
ArrayInputs(isArray, D) == IF isArray THEN SUBSET D ELSE {{}}

\* payloads the trigger builds: a row change as JSON
ChangePayloads == {TriggerPayload(c[1], c[2], c[3]) : c \in RowChanges}

FanoutNext ==
    \/ StoreNotify
    \/ \E k \in Slots, p \in ChangePayloads : OnNotification(k, p)
    \/ ClientConnect
    \/ \E s \in Sids, oa, sa \in BOOLEAN :
          \E oids \in ArrayInputs(oa, OrderIds), sts \in ArrayInputs(sa, Statuses) :
             Subscribe(s, oa, oids, sa, sts)
    \/ \E s \in Sids, oa, sa \in BOOLEAN :
          \E oids \in ArrayInputs(oa, OrderIds), sts \in ArrayInputs(sa, Statuses) :
             Unsubscribe(s, oa, oids, sa, sts)
    \/ \E s \in Sids : ClientDisconnect(s)

FanoutSpec == FanoutInit /\ [][FanoutNext]_vars

\* payloads of the changes of one row: its insert, update and delete
RowPayloads ==
    {p \in Payloads : p.kind = "valid" /\ p.id = 1 /\ p.status = "pending"}

\* The stream of one connection that stays open: the store commits changes,
\* the connection reads their notifications, sockets come and go.
QueueNext ==
    \/ \E p \in RowPayloads : StoreCommit(p)
    \/ \E k \in Slots : OnQueuedNotification(k)
    \/ ClientConnect
    \/ \E s \in Sids : ClientDisconnect(s)

QueueSpec == FanoutInit /\ [][QueueNext]_vars

\* the same, where the event loop runs the handler of a notification that has
\* arrived
QueueLiveSpec ==
    /\ FanoutInit
    /\ [][QueueNext]_vars
    /\ WF_vars(\E k \in Slots : OnQueuedNotification(k))

\* Sockets come and go, subscribe and unsubscribe.
SubsNext ==
    \/ ClientConnect
    \/ \E s \in Sids, oa, sa \in BOOLEAN :
          \E oids \in ArrayInputs(oa, OrderIds), sts \in ArrayInputs(sa, Statuses) :
             Subscribe(s, oa, oids, sa, sts)
    \/ \E s \in Sids, oa, sa \in BOOLEAN :
          \E oids \in ArrayInputs(oa, OrderIds), sts \in ArrayInputs(sa, Statuses) :
             Unsubscribe(s, oa, oids, sa, sts)
    \/ \E s \in Sids : ClientDisconnect(s)
    \/ \E s \in Sids : DuplicateDisconnect(s)

SubsSpec == FanoutInit /\ [][SubsNext]_vars

\* Sockets come and go behind a connected listener until a signal shuts the
\* server down.
StopNext ==
    \/ ClientConnect
    \/ \E s \in Sids : ClientDisconnect(s)
    \/ Signal
    \/ \E k \in Slots : EndEvent(k)
    \/ \E k \in Slots : DisconnectResolve(k)
    \/ \E k \in Slots : DisconnectReject(k)
    \/ ClosePoolDone
    \/ ServerClosed
    \/ ForceExit

StopSpec == FanoutInit /\ [][StopNext]_vars

\* the same, where the event loop runs what is ready: the continuation of
\* disconnect() once the pool has ended, the continuation of shutdown() once
\* closePool() has returned, the force-exit timer once it is set, and the
\* rejection of an end() called on a pool whose end() is already awaited. The
\* connection to the store may stay open, and a first end() need not reject.
StopLiveSpec ==
    /\ FanoutInit
    /\ [][StopNext]_vars
    /\ WF_vars(\E k \in Slots : DisconnectResolve(k))
    /\ WF_vars(\E k \in Slots : awaitEnd[k] > 1 /\ DisconnectReject(k))
    /\ WF_vars(ClosePoolDone)
    /\ WF_vars(ForceExit)

\* Sockets come and go, subscribe and unsubscribe; every step that keeps the
\* sockets is a subscribe or an unsubscribe of one of them.
FrameNext ==
    \/ ClientConnect
    \/ \E s \in Sids, oa, sa \in BOOLEAN :
          \E oids \in ArrayInputs(oa, OrderIds), sts \in ArrayInputs(sa, Statuses) :
             Subscribe(s, oa, oids, sa, sts)
    \/ \E s \in Sids, oa, sa \in BOOLEAN :
          \E oids \in ArrayInputs(oa, OrderIds), sts \in ArrayInputs(sa, Statuses) :
             Unsubscribe(s, oa, oids, sa, sts)
    \/ \E s \in Sids : ClientDisconnect(s)

FrameSpec == FanoutInit /\ [][FrameNext]_vars

\* Sockets come and go and send subscribe and unsubscribe messages of any
\* shape: with arrays, with values that are no arrays, without payload.
RequestNext ==
    \/ ClientConnect
    \/ \E s \in Sids, oa, sa \in BOOLEAN :
          \E oids \in ArrayInputs(oa, OrderIds), sts \in ArrayInputs(sa, Statuses) :
             Subscribe(s, oa, oids, sa, sts)
    \/ \E s \in Sids, oa, sa \in BOOLEAN :
          \E oids \in ArrayInputs(oa, OrderIds), sts \in ArrayInputs(sa, Statuses) :
             Unsubscribe(s, oa, oids, sa, sts)
    \/ \E s \in Sids : RequestWithoutPayload(s)
    \/ \E s \in Sids : ClientDisconnect(s)

RequestSpec == FanoutInit /\ [][RequestNext]_vars

\* Sockets connect and subscribe, and a signal shuts the server down while
\* the store goes on raising notifications and the listener, still connected,
\* handles them.
LastNoticeNext ==
    \/ ClientConnect
    \/ \E s \in Sids, oa, sa \in BOOLEAN :
          \E oids \in ArrayInputs(oa, {1}), sts \in ArrayInputs(sa, {"pending"}) :
             Subscribe(s, oa, oids, sa, sts)
    \/ Signal
    \/ StoreNotify
    \/ \E k \in Slots, p \in RowPayloads : OnNotification(k, p)

LastNoticeSpec == FanoutInit /\ [][LastNoticeNext]_vars

\* Sockets connect and subscribe while the channel carries changes of a row
\* and payloads that are no change of a row.
OddNext ==
    \/ ClientConnect
    \/ \E s \in Sids, oa, sa \in BOOLEAN :
          \E oids \in ArrayInputs(oa, {1}), sts \in ArrayInputs(sa, {"pending"}) :
             Subscribe(s, oa, oids, sa, sts)
    \/ StoreNotify
    \/ \E k \in Slots, p \in RowPayloads \cup OddPayloads : OnNotification(k, p)

OddSpec == FanoutInit /\ [][OddNext]_vars

\* Sockets come and go behind a listener whose connection is lost and whose
\* reconnects fail until the attempts are used up.
FatalNext ==
    \/ ClientConnect
    \/ \E s \in Sids : ClientDisconnect(s)
    \/ \E k \in Slots : ErrorEvent(k)
    \/ \E k \in Slots : EndEvent(k)
    \/ \E k \in Slots : TimerFire(k)
    \/ \E k \in Slots : ConnectFail(k)

FatalSpec == FanoutInit /\ [][FatalNext]_vars

\* Sockets come, subscribe, lose their transport and go while the changes of
\* one row are broadcast.
FailNext ==
    \/ StoreNotify
    \/ \E k \in Slots, p \in RowPayloads : OnNotification(k, p)
    \/ ClientConnect
    \/ \E s \in Sids, oa, sa \in BOOLEAN :
          \E oids \in ArrayInputs(oa, {1}), sts \in ArrayInputs(sa, {"pending"}) :
             Subscribe(s, oa, oids, sa, sts)
    \/ \E s \in Sids : TransportFail(s)
    \/ \E s \in Sids : ClientDisconnect(s)

FailSpec == FanoutInit /\ [][FailNext]_vars

\* ------------------------------------------------------------ properties
\* the name of an operation in a channel name
OpName(op) ==
    CASE op = "INSERT" -> "insert"
      [] op = "UPDATE" -> "update"
      [] op = "DELETE" -> "delete"

\* the messages of channel ch that a callback emitted to socket s
Got(out, s, ch) == {i \in 1..Len(out) : out[i].to = s /\ out[i].ch = ch}

\* C1: whenever handleDisconnection schedules a reconnect, the attempt counter
\* has been incremented first and the delay passed to setTimeout is
\* 1000, 2000, 4000, 8000, 16000 ms for attempts 1..5 and 30000 ms for
\* attempts 6..10.
C1_DelaySequence ==
    [][reconnectAttempts' = reconnectAttempts + 1 =>
         /\ reconnectAttempts' \in 1..10
         /\ timers' = timers + 1
         /\ lastDelay' = <<1000, 2000, 4000, 8000, 16000,
                           30000, 30000, 30000, 30000, 30000>>[reconnectAttempts']
      ]_vars

\* the tenth attempt has just been scheduled, with the capped delay
C1_Witness == reconnectAttempts = 10 /\ lastDelay = 30000

\* C2: maxReconnectAttemptsReached is emitted at most once, whatever failure
\* events follow.
C2_FatalOnce == fatalCount <= 1

\* C3: once maxReconnectAttemptsReached has been emitted the listener is at
\* rest: no reconnect timer is pending, no connect() is under way, isConnected
\* is false and reconnectAttempts is maxReconnectAttempts.
C3_FailedTerminal ==
    fatalCount > 0 =>
        /\ timers = 0
        /\ \A k \in Slots : pool[k] # "connecting"
        /\ ~isConnected
        /\ reconnectAttempts = maxReconnectAttempts

\* C4: at most one LISTEN connection is open with its handlers attached and
\* at most one reconnect timer is pending.
C4_OneSubscription ==
    /\ Cardinality({k \in Slots : pool[k] = "open"}) <= 1
    /\ timers <= 1

\* C5: a notification of the store is handled by at most one
\* handleDatabaseChange call, so no socket gets its all-scope message twice.
C5_HandledOnce == handled <= 1

\* C6: after disconnect() was called no callback of the listener starts a
\* connect().
C6_StopIsFinal ==
    [][stopCalled =>
         \A k \in Slots : pool'[k] = "connecting" => pool[k] = "connecting"
      ]_vars

C8_FailureNotThrown == ~(exitBy = "connect" /\ timers > 0)

\* C9: for every change handed to handleDatabaseChange each registered
\* socket, subscribed or not, gets exactly one message on orders:<operation>,
\* and it carries the change.
C9_AllScope ==
    [][handled' = handled + 1 =>
         \A k \in Slots, p \in Payloads :
            OnNotification(k, p) =>
            \A s \in DOMAIN connectedClients :
               /\ Cardinality(Got(sent', s, "orders")) = 1
               /\ \A i \in Got(sent', s, "orders") :
                     sent'[i].op = OpName(p.op) /\ sent'[i].data = p
      ]_vars

\* with two sockets registered, a socket in no room got the all-scope message
C9_Witness ==
    /\ Cardinality(DOMAIN connectedClients) = 2
    /\ \E s \in DOMAIN connectedClients :
          /\ orderRooms[s] = {}
          /\ statusRooms[s] = {}
          /\ Got(sent, s, "orders") # {}

\* C10: for every change handled, a socket gets the message of
\* status_<s>:<operation> exactly when it asked for status s and has not
\* withdrawn it, and the message of order_<i>:<operation> exactly when it
\* asked for order i and has not withdrawn it; each at most once.
C10_Scoped ==
    [][handled' = handled + 1 =>
         \A k \in Slots, p \in Payloads :
            OnNotification(k, p) =>
            \A s \in Sids :
               /\ Cardinality(Got(sent', s, "status")) =
                     (IF s \in DOMAIN connectedClients
                         /\ p.status \in askedStatuses[s] THEN 1 ELSE 0)
               /\ \A i \in Got(sent', s, "status") :
                     /\ sent'[i].status = p.status
                     /\ sent'[i].op = OpName(p.op)
                     /\ sent'[i].data = p
               /\ Cardinality(Got(sent', s, "order")) =
                     (IF s \in DOMAIN connectedClients
                         /\ p.id \in askedOrders[s] THEN 1 ELSE 0)
               /\ \A i \in Got(sent', s, "order") :
                     /\ sent'[i].id = p.id
                     /\ sent'[i].op = OpName(p.op)
                     /\ sent'[i].data = p
      ]_vars

\* one socket got the status-scoped and the order-scoped message while the
\* other, in no room, got only the all-scope one
C10_Witness ==
    \E a, b \in DOMAIN connectedClients :
       /\ Got(sent, a, "status") # {}
       /\ Got(sent, a, "order") # {}
       /\ Got(sent, b, "orders") # {}
       /\ Got(sent, b, "status") = {}
       /\ Got(sent, b, "order") = {}
       /\ orderRooms[b] = {}
       /\ statusRooms[b] = {}

\* C11: when WebSocketHandler.shutdown runs, every registered socket is sent
\* the server_shutdown notice, and the notice comes before the close of that
\* socket's transport; no transport is closed without it.
C11_NoticeBeforeClose ==
    [][(~ioClosed /\ ioClosed') =>
         /\ \A s \in DOMAIN connectedClients :
               Cardinality(Got(sent', s, "server_shutdown")) = 1
         /\ \A j \in 1..Len(sent') :
               sent'[j].ch = "close" =>
                  \E i \in 1..(j - 1) :
                     sent'[i].ch = "server_shutdown" /\ sent'[i].to = sent'[j].to
      ]_vars

\* the server was shut down with two sockets registered: both got the notice
\* and both transports were closed
C11_Witness ==
    /\ ioClosed
    /\ Cardinality({m.to : m \in {sent[i] : i \in
                       {j \in 1..Len(sent) : sent[j].ch = "server_shutdown"}}}) = 2
    /\ Cardinality({m.to : m \in {sent[i] : i \in
                       {j \in 1..Len(sent) : sent[j].ch = "close"}}}) = 2

\* C12: every message a callback emits goes to a socket that is in the
\* registry; a socket that was dropped is in no room and gets nothing.
C12_NoDeliveryToDropped ==
    /\ \A i \in 1..Len(sent) : sent[i].to \in DOMAIN connectedClients
    /\ \A s \in Sids \ DOMAIN connectedClients :
          orderRooms[s] = {} /\ statusRooms[s] = {}

\* a change is broadcast, on the all-scope and the status-scoped channel, to a
\* registered socket after another socket was dropped
C12_Witness ==
    /\ nextSid > Cardinality(DOMAIN connectedClients) + 1
    /\ \E s \in DOMAIN connectedClients :
          /\ Got(sent, s, "orders") # {}
          /\ Got(sent, s, "status") # {}

\* C13: the n-th change handed to handleDatabaseChange is the n-th payload
\* the connection received, and the all-scope message each registered socket
\* gets for it carries that payload: changes are dispatched in the order of
\* their notifications.
C13_Fifo ==
    [][readCount' = readCount + 1 =>
         /\ handled' = handled + 1
         /\ \A s \in DOMAIN connectedClients :
               /\ Cardinality(Got(sent', s, "orders")) = 1
               /\ \A i \in Got(sent', s, "orders") :
                     sent'[i].data = storeLog[readCount']
      ]_vars

\* two different changes were notified and the second has just been broadcast
\* as the second
C13_Witness ==
    /\ readCount = 2
    /\ storeLog[1] # storeLog[2]
    /\ \E s \in DOMAIN connectedClients :
          \E i \in Got(sent, s, "orders") : sent[i].data = storeLog[2]

\* C14: while the listener stays connected, for every change the store has
\* notified and every socket registered then, either the socket is dropped
\* or it gets orders:insert, orders:update or orders:delete according to the
\* operation of the change.
C14_EveryChangeDelivered ==
    \A n \in 1..MaxNotifs : \A s \in Sids :
       (Len(storeLog) >= n /\ readCount < n /\ s \in DOMAIN connectedClients)
       ~> (\/ s \notin DOMAIN connectedClients
           \/ /\ readCount = n
              /\ \E i \in Got(sent, s, "orders") :
                    sent[i].op = OpName(storeLog[n].op))

\* a socket has just got orders:delete for a delete the store notified
C14_Witness ==
    /\ readCount > 0
    /\ storeLog[readCount].op = "DELETE"
    /\ \E s \in DOMAIN connectedClients :
          \E i \in Got(sent, s, "orders") : sent[i].op = "delete"

\* C15: while the listener is connected, a call of connect() opens no
\* further connection.
C15_StartWhenListening ==
    [][isConnected =>
         \A k \in Slots : pool'[k] = "connecting" => pool[k] = "connecting"
      ]_vars

\* C16: a disconnect() call changes nothing of the listener when it is made,
\* and when it completes it at most sets isConnected to false; completing
\* when isConnected is false already (a repeated call) changes nothing, and a
\* rejected end() is not passed on to the caller.
C16_StopIdempotent ==
    [][/\ Signal => UNCHANGED <<listenerVars, exitBy>>
       /\ \A k \in Slots :
             (DisconnectResolve(k) \/ DisconnectReject(k)) =>
                /\ UNCHANGED <<client, pool, reconnectAttempts, timers,
                               fatalCount, exitBy>>
                /\ isConnected' => isConnected
                /\ awaitPool' = awaitPool + 1
      ]_vars

\* two disconnect() calls were made on the same pool
C16_Witness == \E k \in Slots : awaitEnd[k] = 2

\* C17: a subscribe that names only order ids and statuses the socket holds
\* already leaves the rooms of every socket as they are, and after an
\* unsubscribe the socket holds none of the order ids and statuses it named,
\* however often it had subscribed to them.
C17_SetSemantics ==
    [][\A s \in Sids : \A oids \in SUBSET OrderIds, sts \in SUBSET Statuses :
         /\ (/\ oids \subseteq orderRooms[s]
             /\ sts \subseteq statusRooms[s]
             /\ Subscribe(s, TRUE, oids, TRUE, sts)) =>
               UNCHANGED <<orderRooms, statusRooms>>
         /\ Unsubscribe(s, TRUE, oids, TRUE, sts) =>
               /\ orderRooms'[s] \cap oids = {}
               /\ statusRooms'[s] \cap sts = {}
               /\ orderRooms'[s] = orderRooms[s] \ oids
               /\ statusRooms'[s] = statusRooms[s] \ sts
      ]_vars

\* a socket holds every order id and every status, so that any further
\* subscribe of it names only what it holds
C17_Witness ==
    \E s \in DOMAIN connectedClients :
       orderRooms[s] = OrderIds /\ statusRooms[s] = Statuses

\* C18: an unsubscribe that names no order id and no status the socket holds
\* changes no socket's rooms and not the registry, and the process goes on.
C18_UnsubscribeAbsent ==
    [][\A s \in Sids, oa, sa \in BOOLEAN :
         \A oids \in ArrayInputs(oa, OrderIds), sts \in ArrayInputs(sa, Statuses) :
            (/\ oids \cap orderRooms[s] = {}
             /\ sts \cap statusRooms[s] = {}
             /\ Unsubscribe(s, oa, oids, sa, sts)) =>
               UNCHANGED <<orderRooms, statusRooms, connectedClients, sockets,
                           exitBy>>
      ]_vars

\* of two registered sockets one holds the status pending only and the other
\* an order id only: an unsubscribe from shipped names nothing either holds
C18_Witness ==
    \E a, b \in DOMAIN connectedClients :
       /\ a # b
       /\ statusRooms[a] = {"pending"}
       /\ orderRooms[a] = {}
       /\ statusRooms[b] = {}
       /\ orderRooms[b] # {}

\* C19: every entry of connectedClients stores the id it is keyed by, so no
\* two entries are of the same socket id; the registry holds exactly the
\* sockets of the namespace.
C19_RegistryKeys ==
    /\ \A s \in DOMAIN connectedClients : connectedClients[s].id = s
    /\ \A a, b \in DOMAIN connectedClients :
          connectedClients[a].id = connectedClients[b].id => a = b
    /\ DOMAIN connectedClients = sockets

\* two sockets are registered at once
C19_Witness == Cardinality(DOMAIN connectedClients) = 2

\* C20: the welcome message goes to the socket that connected, carries that
\* socket's id and a totalClients equal to the size of the registry with the
\* new socket in it, which is at least 1.
C20_Welcome ==
    \A i \in 1..Len(sent) :
       sent[i].ch = "welcome" =>
          /\ Len(sent) = 1
          /\ sent[i].id = sent[i].to
          /\ sent[i].to \in DOMAIN connectedClients
          /\ sent[i].totalClients = Cardinality(DOMAIN connectedClients)
          /\ sent[i].totalClients >= 1

\* the second of two registered sockets has just been welcomed
C20_Witness ==
    /\ Len(sent) = 1
    /\ sent[1].ch = "welcome"
    /\ sent[1].totalClients = 2

\* C21: the 'disconnect' handler of a socket takes exactly that socket's
\* entry out of the registry; run again for a socket that is gone, it leaves
\* the registry, the other sockets and their rooms as they are, and the
\* process goes on.
C21_UnregisterOnce ==
    [][\A s \in Sids :
         /\ ClientDisconnect(s) =>
               /\ DOMAIN connectedClients' = DOMAIN connectedClients \ {s}
               /\ \A x \in DOMAIN connectedClients' :
                     connectedClients'[x] = connectedClients[x]
               /\ \A x \in Sids \ {s} :
                     /\ orderRooms'[x] = orderRooms[x]
                     /\ statusRooms'[x] = statusRooms[x]
         /\ DuplicateDisconnect(s) =>
               UNCHANGED <<connectedClients, sockets, orderRooms, statusRooms,
                           exitBy>>
      ]_vars

\* one socket has been dropped and another one is registered and holds rooms
C21_Witness ==
    \E s \in Sids :
       /\ s < nextSid
       /\ s \notin DOMAIN connectedClients
       /\ \E x \in DOMAIN connectedClients :
             orderRooms[x] # {} /\ statusRooms[x] # {}

\* C22: a broadcast delete carries the deleted row, with its id, and the
\* sockets in the room of that id and in the room of its status get the
\* order-scoped and the status-scoped message of the delete.
C22_DeleteCarriesRow ==
    \A i \in 1..Len(sent) :
       (sent[i].ch = "orders" /\ sent[i].op = "delete") =>
          /\ sent[i].data.id \in OrderIds
          /\ \A s \in DOMAIN connectedClients :
                /\ sent[i].data.id \in orderRooms[s] =>
                      \E j \in Got(sent, s, "order") :
                         sent[j].op = "delete" /\ sent[j].id = sent[i].data.id
                /\ sent[i].data.status \in statusRooms[s] =>
                      \E j \in Got(sent, s, "status") :
                         sent[j].op = "delete"
                         /\ sent[j].status = sent[i].data.status

\* the delete of a shipped order 2 reached a socket on all three channels
C22_Witness ==
    \E s \in DOMAIN connectedClients :
       /\ \E i \in Got(sent, s, "orders") :
             /\ sent[i].op = "delete"
             /\ sent[i].data.id = 2
             /\ sent[i].data.status = "shipped"
       /\ \E i \in Got(sent, s, "order") : sent[i].op = "delete"
       /\ \E i \in Got(sent, s, "status") : sent[i].op = "delete"

\* C23: a write that fails for one socket is isolated: in the same broadcast
\* every other registered socket gets the all-scope message and the scoped
\* messages of the rooms it is in, and the broadcast removes no socket from
\* the registry, the failing one included.
C23_FailureIsolated ==
    [][handled' = handled + 1 =>
         \A k \in Slots, p \in RowPayloads :
            OnNotification(k, p) =>
               /\ connectedClients' = connectedClients
               /\ \A s \in DOMAIN connectedClients \ broken :
                     /\ \E i \in Got(sent', s, "orders") : ~sent'[i].failed
                     /\ p.id \in orderRooms[s] =>
                           \E i \in Got(sent', s, "order") : ~sent'[i].failed
                     /\ p.status \in statusRooms[s] =>
                           \E i \in Got(sent', s, "status") : ~sent'[i].failed
      ]_vars

\* a broadcast whose write to one socket failed and which went on to deliver
\* the scoped messages to another socket, both sockets still registered
C23_Witness ==
    \E i, j \in 1..Len(sent) :
       /\ i < j
       /\ sent[i].ch = "orders"
       /\ sent[i].failed
       /\ sent[j].ch \in {"order", "status"}
       /\ ~sent[j].failed
       /\ {sent[i].to, sent[j].to} \subseteq DOMAIN connectedClients

\* C24: once shutdown() has started, the process terminates in the end: if
\* a step of the shutdown never completes, the force-exit deadline ends it.
C24_ShutdownTerminates == stopCalled ~> exited

\* C25: every successful connect() sets isConnected and resets
\* reconnectAttempts to 0, so the first failure after a success is attempt 1
\* with a delay of 1000 ms, and the fatal event needs maxReconnectAttempts
\* failures counted since the last success.
C25_SuccessResets ==
    [][/\ \A k \in Slots :
            ConnectSuccess(k) => isConnected' /\ reconnectAttempts' = 0
       /\ (isConnected /\ reconnectAttempts' # reconnectAttempts) =>
             /\ ~isConnected'
             /\ reconnectAttempts' = 1
             /\ lastDelay' = reconnectDelay
             /\ timers' = timers + 1
       /\ fatalCount' > fatalCount =>
             /\ ~isConnected
             /\ reconnectAttempts = maxReconnectAttempts
      ]_vars

\* the connection of a reconnect (the second pool) was open and has failed:
\* the outage after that success is counted as attempt 1, delay 1000 ms
C25_Witness ==
    /\ pool[2] = "errored"
    /\ reconnectAttempts = 1
    /\ lastDelay = reconnectDelay

\* C26: after a failure of the connection or of a connection attempt, while
\* disconnect() has not been called and attempts remain, the listener goes on
\* by itself: the process lives and a retry is pending, a connect() is under
\* way, or the listener is connected again.
C26_ReconnectsByItself ==
    (reconnectAttempts > 0 /\ fatalCount = 0 /\ ~stopCalled /\ Shutdowns = 0) =>
        /\ ~exited
        /\ \/ timers > 0
           \/ \E k \in Slots : pool[k] = "connecting"
           \/ isConnected

\* C27: one message per topic match, without deduplication: for a change
\* with id i and status s a socket gets the all-scope message, one more if it
\* is in the room of order i and one more if it is in the room of status s,
\* each on a channel of its own and each carrying the change; a socket in no
\* room gets exactly one.
C27_OnePerMatch ==
    \A i \in 1..Len(sent) :
       sent[i].ch \in {"orders", "order", "status"} =>
          LET d == sent[i].data
              t == sent[i].to
              mine == {j \in 1..Len(sent) : sent[j].to = t}
          IN  /\ Cardinality(mine) =
                    1 + (IF d.id \in orderRooms[t] THEN 1 ELSE 0)
                      + (IF d.status \in statusRooms[t] THEN 1 ELSE 0)
              /\ \A j \in mine : sent[j].data = d
              /\ \A j, l \in mine : j # l => sent[j].ch # sent[l].ch
              /\ \A x \in sockets : Got(sent, x, "orders") # {}

\* one change reached a socket in the rooms of its order and of its status
\* three times and a socket in no room once
C27_Witness ==
    \E t, u \in sockets :
       /\ Cardinality({j \in 1..Len(sent) : sent[j].to = t}) = 3
       /\ Got(sent, t, "orders") # {}
       /\ Got(sent, t, "order") # {}
       /\ Got(sent, t, "status") # {}
       /\ orderRooms[u] = {}
       /\ statusRooms[u] = {}
       /\ Cardinality({j \in 1..Len(sent) : sent[j].to = u}) = 1

\* C28: when the listener emits maxReconnectAttemptsReached the owner starts
\* its shutdown: every socket registered at that time gets the
\* server_shutdown notice and then has its transport closed, and the server
\* takes no socket any more.
C28_FatalShutsDown ==
    [][fatalCount' > fatalCount =>
         /\ stopCalled'
         /\ ioClosed'
         /\ sockets' = {}
         /\ \A s \in DOMAIN connectedClients :
               \E i, j \in 1..Len(sent') :
                  /\ i < j
                  /\ sent'[i].to = s /\ sent'[i].ch = "server_shutdown"
                  /\ sent'[j].to = s /\ sent'[j].ch = "close"
      ]_vars

\* the fatal event has been emitted and a socket got the notice and the close
C28_Witness ==
    /\ fatalCount = 1
    /\ reconnectAttempts = maxReconnectAttempts
    /\ \E i, j \in 1..Len(sent) :
          /\ i < j
          /\ sent[i].ch = "server_shutdown"
          /\ sent[j].ch = "close"
          /\ sent[i].to = sent[j].to

\* C29: a socket starts in no room and its rooms end with it: an id that is
\* not connected holds no room, a socket that has just been welcomed holds
\* none, and a scoped message goes only to a connected socket that asked for
\* its order or status itself, so a client that comes back as a new socket
\* gets all-scope messages only until it subscribes again.
C29_FreshSession ==
    /\ \A s \in Sids \ sockets : orderRooms[s] = {} /\ statusRooms[s] = {}
    /\ \A i \in 1..Len(sent) :
          /\ sent[i].ch = "welcome" =>
                orderRooms[sent[i].to] = {} /\ statusRooms[sent[i].to] = {}
          /\ sent[i].ch = "order" =>
                sent[i].to \in sockets /\ sent[i].id \in askedOrders[sent[i].to]
          /\ sent[i].ch = "status" =>
                sent[i].to \in sockets
                /\ sent[i].status \in askedStatuses[sent[i].to]

\* the first socket is gone; the second, which has not subscribed, got the
\* all-scope message of a change and nothing else
C29_Witness ==
    /\ nextSid > 2
    /\ sockets = {2}
    /\ askedOrders[2] = {} /\ askedStatuses[2] = {}
    /\ Len(sent) = 1
    /\ sent[1].ch = "orders"
    /\ sent[1].to = 2

\* C30: there is no replay: a notification the store raised while no
\* connection of the listener was listening is handed to no connection and
\* is never handled or sent to a socket, also not after the listener has
\* connected again.
C30_NoReplay ==
    missed =>
       /\ pending = {}
       /\ handled = 0
       /\ discarded = 0
       /\ \A i \in 1..Len(sent) : sent[i].ch \notin {"orders", "order", "status"}

\* a notification was raised while no connection was listening; the listener
\* has reconnected since, with a second pool, and a socket is registered
C30_Witness ==
    /\ missed
    /\ isConnected
    /\ reconnectAttempts = 0
    /\ pool[2] = "open"
    /\ sockets # {}

\* C31: in every reachable state reconnectAttempts is between 0 and
\* maxReconnectAttempts: handleDisconnection increments it only while it is
\* below the maximum, also when failure events and timers overlap.
C31_AttemptsBounded == reconnectAttempts \in 0..maxReconnectAttempts

\* handleDisconnection ran twice with the attempts used up (the 'error' and
\* the 'end' of one connection) and the counter stayed at the maximum
C31_Witness ==
    /\ reconnectAttempts = maxReconnectAttempts
    /\ fatalCount = 2

\* C32: the status is accurate: isConnected is true exactly when a
\* connection of the listener is open and listening.
C32_StatusAccurate == isConnected <=> (\E k \in Slots : pool[k] = "open")

\* the messages of a broadcast that go to socket x
MessagesTo(out, x) == LET forX(m) == m.to = x IN SelectSeq(out, forX)

\* the messages a broadcast of p owes socket x by the rooms of x alone
OwnMessages(x, p) ==
    <<Msg(x, "orders", 0, "", OpName(p.op), p)>>
    \o (IF p.id \in orderRooms[x]
        THEN <<Msg(x, "order", p.id, "", OpName(p.op), p)>> ELSE <<>>)
    \o (IF p.status \in statusRooms[x]
        THEN <<Msg(x, "status", 0, p.status, OpName(p.op), p)>> ELSE <<>>)

\* C33: a subscribe or unsubscribe changes the rooms of one socket only,
\* the one that asked: the registry, the sockets, the rooms of every other
\* socket and the listener are unchanged (such a request is a step that
\* keeps the sockets and the socket ids); and the messages a broadcast sends
\* to a socket depend on the rooms of that socket alone, so what the other
\* sockets get for any later change is unaffected.
C33_SubscribeFrame ==
    /\ [][(sockets' = sockets /\ nextSid' = nextSid) =>
            /\ UNCHANGED <<connectedClients, ioClosed, broken, listenerVars,
                           storeVars, ownerVars>>
            /\ \E s \in sockets :
                  \A x \in Sids \ {s} :
                     /\ orderRooms'[x] = orderRooms[x]
                     /\ statusRooms'[x] = statusRooms[x]
                     /\ askedOrders'[x] = askedOrders[x]
                     /\ askedStatuses'[x] = askedStatuses[x]
         ]_vars
    /\ [](\A p \in ChangePayloads, x \in sockets :
            MessagesTo(HandleDatabaseChange(p), x) = OwnMessages(x, p))

\* two sockets hold different rooms: one the order 1 only, the other the
\* order 2 and the status pending, each as it asked
C33_Witness ==
    /\ sockets = {1, 2}
    /\ orderRooms[1] = {1} /\ statusRooms[1] = {}
    /\ orderRooms[2] = {2} /\ statusRooms[2] = {"pending"}
    /\ askedOrders[2] = {2} /\ askedStatuses[1] = {}

\* C34: no subscribe or unsubscribe message of a client, whatever the shape
\* of its payload, takes the server out of service: none starts the owner's
\* shutdown, and the sockets stay open to receive changes.
C34_RequestsKeepService == ~stopCalled /\ ~ioClosed

\* C35: in the owner's shutdown the server_shutdown notice is the last
\* message a socket gets: once the broadcaster is shut down, no change that
\* the listener still handles is sent to any socket, and nothing follows the
\* notice but the close of the transport.
C35_NoticeIsLast ==
    ioClosed =>
       /\ \A i \in 1..Len(sent) : sent[i].ch \in {"server_shutdown", "close"}
       /\ \A i, j \in 1..Len(sent) :
             (i < j /\ sent[i].to = sent[j].to) =>
                sent[i].ch = "server_shutdown" /\ sent[j].ch = "close"

\* sockets were connected when the one shutdown began; after it the listener
\* handled a change, and no message went out
C35_Witness ==
    /\ ioClosed
    /\ Shutdowns = 1
    /\ nextSid > 1
    /\ handled = 1
    /\ sent = <<>>

\* C36: a payload that parses as JSON and has no data object or no operation
\* string results in no message on any channel to any socket: every change
\* message sent carries the change of a row.
C36_OddPayloadSilent ==
    \A i \in 1..Len(sent) :
       sent[i].ch \in {"orders", "order", "status"} => sent[i].data.kind = "valid"

====
